---- MODULE Spec2Model ----
(***************************************************************************)
(* difflicious: the unified-diff parser of src/difflicious/diff_parser.py  *)
(* and the services around it.                                             *)
(*                                                                         *)
(* Spec         one call of parse_git_diff_for_rendering, as a state       *)
(*              machine over the objects the unidiff library hands to the  *)
(*              parser (PatchSet, PatchedFile, Hunk, Line)                 *)
(* SpecRepeat   calls of the parser one after the other                    *)
(* SpecService  DiffService._process_single_diff around a parser call      *)
(* SpecWatcher  DiffWatcher: debouncing of file-system events              *)
(* SpecWatch    WatchManager and the event_stream generators of /api/watch *)
(* SpecSafePath GitRepository._is_safe_file_path                           *)
(*                                                                         *)
(* Text is a sequence of tokens; a line ending is the token "\n" or "\r".  *)
(* Python's 0-based indices are kept: lines[i] of the code is lines[i + 1] *)
(* here.                                                                   *)
(***************************************************************************)
EXTENDS Integers, Sequences, FiniteSets, TLC

VARIABLES
    diff,               \* diff_text, as the file sections it holds
    pc,                 \* position in parse_git_diff_for_rendering
    patch_set,          \* PatchSet(diff_text) of parse_git_diff
    files,              \* the list `files` of parse_git_diff
    parsed_files,       \* parse_git_diff's return value in the caller
    rendered_files,     \* the list `rendered_files`
    file_idx,           \* position of the `for file_data in parsed_files` loop
    hunk_idx,           \* position of the `for hunk in hunks` loop (aligner)
    i,                  \* the aligner's scan index `i`
    side_by_side_lines, \* the aligner's output list
    row_hunk,           \* history: for each emitted row, the hunk it was emitted for
    exc,                \* the exception in flight, "" when none
    message,            \* str(e) of the exception in flight
    result,             \* what the call gave its caller
    summary,            \* get_file_summary of the returned files
    calls,              \* history: the calls that have ended, as [diff, result]
    diff_data,          \* DiffService._process_single_diff: its argument `diff`
    svc_pc,             \* position in _process_single_diff
    processed_diff,     \* what _process_single_diff gave its caller
    now,                \* DiffWatcher: the clock, time.time()
    debounce_seconds,   \* DiffWatcher.debounce_seconds
    ignore_patterns,    \* DiffWatcher.ignore_patterns
    last_event_time,    \* DiffWatcher.last_event_time
    debounce_timer,     \* DiffWatcher.debounce_timer: None or a timer of `timers`
    timers,             \* the threading.Timer objects made so far
    event_queue,        \* DiffWatcher.event_queue
    events,             \* history: the times of the events that passed both checks
    handled,            \* history: the number of on_any_event calls
    last_path,          \* history: src_path of the last on_any_event call
    file_path,          \* GitRepository._is_safe_file_path: its argument
    safe,               \* what _is_safe_file_path returned
    observer,           \* WatchManager.observer (and .watcher): None or an observer
    observers,          \* the Observer objects made so far, each by its state
    clients,            \* WatchManager.clients: client id -> its queue
    lock,               \* WatchManager.lock: None or the stream that holds it
    client_id_counter,  \* WatchManager.client_id_counter
    stream              \* the event_stream generators of /api/watch, one per request

\* The variables of one call of the parser.
parser == <<diff, pc, patch_set, files, parsed_files, rendered_files, file_idx,
            hunk_idx, i, side_by_side_lines, row_hunk, exc, message, result, summary>>

\* The variables of DiffService.
service == <<diff_data, svc_pc, processed_diff>>

\* The variables of DiffWatcher.
watcher == <<now, debounce_seconds, ignore_patterns, last_event_time, debounce_timer,
             timers, event_queue, events, handled, last_path>>

\* The variables of GitRepository._is_safe_file_path.
safety == <<file_path, safe>>

\* The variables of WatchManager and of the streams that use it.
manager == <<observer, observers, clients, lock, client_id_counter, stream>>

\* The variables of what is around one call of the parser.
ext == <<calls, service, watcher, safety, manager>>

vars == <<parser, ext>>

----
\* Bounds of the explored inputs.

\* Longest hunk body of the single-hunk inputs.
MaxLines == 4
\* Largest start line in a hunk header of the single-hunk inputs.
MaxStart == 2
\* Largest number of hunks in a multi-hunk input (over all its files).
MaxHunks == 3
\* Unchanged lines git leaves out between two hunks of one file.
HunkGap == 2
\* Largest number of file sections in an input that varies paths and statuses.
MaxFiles == 2

----
\* Values

None == -1

Max(a, b) == IF a >= b THEN a ELSE b

\* The markers unidiff accepts at the head of a hunk body line:
\* context, removed, added and the "\ No newline at end of file" marker.
LineTypes == {" ", "-", "+", "\\"}

\* A marker unidiff does not accept (PatchSet raises UnidiffParseError).
BadMarker == "x"

SectionHeaders == {"", "def f():"}

Letters == <<"a", "b", "c", "d", "e", "f", "g", "h">>

DevNull == <<"/dev/null">>

\* The text after the marker of the k-th body line: a letter and "\n",
\* or "\r\n" on even lines; the third line is indented, holds a carriage
\* return inside and a blank before its "\r\n"; the no-newline marker has
\* its fixed text.
LineValue(k, t) ==
    IF t = "\\" THEN <<" No newline at end of file", "\n">>
    ELSE IF k % 4 = 3
    THEN <<" ", Letters[((k - 1) % Len(Letters)) + 1], "\r", "\t", " ", "\r", "\n">>
    ELSE IF k % 2 = 0 THEN <<Letters[((k - 1) % Len(Letters)) + 1], "\r", "\n">>
    ELSE <<Letters[((k - 1) % Len(Letters)) + 1], "\n">>

CountTypes(body, ts) == Cardinality({k \in 1..Len(body) : body[k] \in ts})

\* A unidiff Hunk: the header's numbers and the body lines. unidiff only
\* builds a hunk whose body has source_length old-side and target_length
\* new-side lines.
Hunk(source_start, target_start, section_header, body) ==
    [source_start   |-> source_start,
     source_length  |-> CountTypes(body, {" ", "-"}),
     target_start   |-> target_start,
     target_length  |-> CountTypes(body, {" ", "+"}),
     section_header |-> section_header,
     added          |-> CountTypes(body, {"+"}),
     removed        |-> CountTypes(body, {"-"}),
     lines          |-> [k \in 1..Len(body) |->
                            [line_type |-> body[k], value |-> LineValue(k, body[k])]]]

\* A unidiff PatchedFile of a file that exists on both sides.
PatchedFile(name, hunks) ==
    [source_file |-> <<"a/", name>>, target_file |-> <<"b/", name>>, hunks |-> hunks]

FileNames == <<"f1.py", "f2.py", "f3.py", "f4.py", "f5.py">>

\* Hunk bodies of up to n lines; git writes the no-newline marker only
\* right after a context, removed or added line.
Bodies(n) ==
    {b \in UNION {[1..m -> LineTypes] : m \in 1..n} :
        \A k \in 1..Len(b) : b[k] = "\\" => k > 1 /\ b[k - 1] # "\\"}

\* Inputs of one file with one hunk: every body of up to MaxLines lines.
SingleHunkDiffs ==
    {[blank |-> FALSE,
      files |-> <<PatchedFile(FileNames[1], <<Hunk(os, ns, sh, b)>>)>>] :
        os \in 1..MaxStart, ns \in 1..MaxStart, sh \in SectionHeaders,
        b \in Bodies(MaxLines)}

\* Hunk bodies of the multi-hunk inputs: a replaced line, an added line after
\* context, and a body unidiff rejects.
PipelineBodies == {<<"-", "+">>, <<" ", "+">>, <<"-", BadMarker>>}

FlaggedHunks == [body : PipelineBodies, section_header : SectionHeaders, newfile : BOOLEAN]

\* The file sections a sequence of flagged hunks spells out: a hunk flagged
\* newfile opens the next file, starting at line 1; any other hunk follows
\* the previous hunk of its file after HunkGap unchanged lines.
RECURSIVE Assemble(_, _, _)
Assemble(fhs, k, acc) ==
    IF k > Len(fhs) THEN acc
    ELSE LET fh == fhs[k]
             n == Len(acc)
         IN IF k = 1 \/ fh.newfile
            THEN Assemble(fhs, k + 1,
                    Append(acc, PatchedFile(FileNames[n + 1],
                                    <<Hunk(1, 1, fh.section_header, fh.body)>>)))
            ELSE LET prev == acc[n].hunks[Len(acc[n].hunks)]
                     h == Hunk(prev.source_start + prev.source_length + HunkGap,
                               prev.target_start + prev.target_length + HunkGap,
                               fh.section_header, fh.body)
                 IN Assemble(fhs, k + 1,
                        [acc EXCEPT ![n].hunks = Append(acc[n].hunks, h)])

MultiHunkDiffs ==
    {[blank |-> FALSE, files |-> Assemble(fhs, 1, <<>>)] :
        fhs \in {s \in UNION {[1..n -> FlaggedHunks] : n \in 2..MaxHunks} : s[1].newfile}}

Whitespace == {" ", "\t", "\n", "\r"}

\* str.strip()
RECURSIVE strip(_)
strip(s) ==
    IF s = <<>> THEN s
    ELSE IF Head(s) \in Whitespace THEN strip(Tail(s))
    ELSE IF s[Len(s)] \in Whitespace THEN strip(SubSeq(s, 1, Len(s) - 1))
    ELSE s

\* Text in which unidiff finds no file section: PatchSet(text) is empty.
NoFileDiff(text) == [blank |-> strip(text) = <<>>, text |-> text, files |-> <<>>]

\* Empty or whitespace-only text.
BlankDiff == NoFileDiff(<<>>)

NoFileDiffs ==
    {NoFileDiff(t) : t \in {<<>>, <<" ", "\n">>, <<"\t", "\r", "\n">>,
                            <<"not a diff", "\n">>, <<" ", "not a diff">>}}

\* The file sections git writes for the file `name`: added, deleted,
\* modified, a first line put into an empty file, a file emptied, renamed
\* from old.py with and without a change, and a mode change (no hunk).
FileSections(name) ==
    LET a == <<"a/", name>>
        b == <<"b/", name>>
        old == <<"a/", "old.py">>
    IN {[source_file |-> DevNull, target_file |-> b, hunks |-> <<Hunk(0, 1, "", <<"+", "+">>)>>],
        [source_file |-> a, target_file |-> DevNull, hunks |-> <<Hunk(1, 0, "", <<"-">>)>>],
        [source_file |-> a, target_file |-> b,
            hunks |-> <<Hunk(1, 1, "def f():", <<" ", "-", "+", "+">>)>>],
        [source_file |-> a, target_file |-> b, hunks |-> <<Hunk(0, 1, "", <<"+">>)>>],
        [source_file |-> a, target_file |-> b, hunks |-> <<Hunk(1, 0, "", <<"-">>)>>],
        [source_file |-> old, target_file |-> b,
            hunks |-> <<Hunk(1, 1, "def f():", <<"-", "+">>)>>],
        [source_file |-> old, target_file |-> b, hunks |-> <<>>],
        [source_file |-> a, target_file |-> b, hunks |-> <<>>]}

\* Inputs of up to MaxFiles file sections of every kind.
StatusDiffs ==
    {[blank |-> FALSE, files |-> fs] :
        fs \in UNION {{s \in [1..n -> UNION {FileSections(FileNames[k]) : k \in 1..n}] :
                            \A k \in 1..n : s[k] \in FileSections(FileNames[k])} :
                        n \in 1..MaxFiles}}

Diffs == SingleHunkDiffs \cup MultiHunkDiffs \cup {BlankDiff} \cup NoFileDiffs \cup StatusDiffs

----
\* str.rstrip('\n\r')
RECURSIVE rstrip(_)
rstrip(s) ==
    IF s # <<>> /\ s[Len(s)] \in {"\n", "\r"}
    THEN rstrip(SubSeq(s, 1, Len(s) - 1))
    ELSE s

\* _parse_line with the whole line stripped, leading blanks included.
parse_line_strip(line, old_line_num, new_line_num) ==
    LET nums == CASE line.line_type = " " -> <<"context", old_line_num, new_line_num>>
                  [] line.line_type = "-" -> <<"deletion", old_line_num, None>>
                  [] line.line_type = "+" -> <<"addition", None, new_line_num>>
                  [] OTHER                -> <<"context", old_line_num, new_line_num>>
    IN [type         |-> nums[1],
        old_line_num |-> nums[2],
        new_line_num |-> nums[3],
        content      |-> strip(line.value)]

\* _parse_line
parse_line(line, old_line_num, new_line_num) ==
    LET nums == CASE line.line_type = " " -> <<"context", old_line_num, new_line_num>>
                  [] line.line_type = "-" -> <<"deletion", old_line_num, None>>
                  [] line.line_type = "+" -> <<"addition", None, new_line_num>>
                  [] OTHER                -> <<"context", old_line_num, new_line_num>>
    IN [type         |-> nums[1],
        old_line_num |-> nums[2],
        new_line_num |-> nums[3],
        content      |-> rstrip(line.value)]

\* The loop with a deletion advancing no cursor.
RECURSIVE parse_hunk_lines_stuck(_, _, _, _)
parse_hunk_lines_stuck(lines, k, old_line_num, new_line_num) ==
    IF k > Len(lines) THEN <<>>
    ELSE LET line == lines[k]
             old_next == IF line.line_type = " " THEN old_line_num + 1 ELSE old_line_num
             new_next == IF line.line_type \in {" ", "+"} THEN new_line_num + 1
                         ELSE new_line_num
         IN <<parse_line(line, old_line_num, new_line_num)>>
                \o parse_hunk_lines_stuck(lines, k + 1, old_next, new_next)

\* The `for line in hunk` loop of _parse_hunk from its k-th line on.
RECURSIVE parse_hunk_lines(_, _, _, _)
parse_hunk_lines(lines, k, old_line_num, new_line_num) ==
    IF k > Len(lines) THEN <<>>
    ELSE LET line == lines[k]
             old_next == IF line.line_type \in {" ", "-"} THEN old_line_num + 1
                         ELSE old_line_num
             new_next == IF line.line_type \in {" ", "+"} THEN new_line_num + 1
                         ELSE new_line_num
         IN <<parse_line(line, old_line_num, new_line_num)>>
                \o parse_hunk_lines(lines, k + 1, old_next, new_next)

\* _parse_hunk
parse_hunk(hunk) ==
    [old_start      |-> hunk.source_start,
     old_count      |-> hunk.source_length,
     new_start      |-> hunk.target_start,
     new_count      |-> hunk.target_length,
     section_header |-> hunk.section_header,
     lines          |-> parse_hunk_lines(hunk.lines, 1, hunk.source_start, hunk.target_start)]

\* unidiff's PatchedFile.is_added_file / is_removed_file / is_modified_file
is_added_file(pf) ==
    \/ pf.source_file = DevNull
    \/ Len(pf.hunks) = 1 /\ pf.hunks[1].source_start = 0 /\ pf.hunks[1].source_length = 0

is_removed_file(pf) ==
    \/ pf.target_file = DevNull
    \/ Len(pf.hunks) = 1 /\ pf.hunks[1].target_start = 0 /\ pf.hunks[1].target_length = 0

is_modified_file(pf) == ~(is_added_file(pf) \/ is_removed_file(pf))

\* The status chain of _parse_file
file_status(pf) ==
    IF is_added_file(pf) THEN "added"
    ELSE IF is_removed_file(pf) THEN "deleted"
    ELSE IF is_modified_file(pf) THEN "modified"
    ELSE IF pf.source_file # pf.target_file THEN "renamed"
    ELSE "modified"

\* path[2:] when the path starts with a/ or b/
strip_prefix(path) ==
    IF path # <<>> /\ Head(path) \in {"a/", "b/"} THEN Tail(path) ELSE path

RECURSIVE SumOver(_, _)
SumOver(s, field) ==
    IF s = <<>> THEN 0 ELSE s[1][field] + SumOver(Tail(s), field)

\* _parse_file with the deletions summed from the hunks' added counts.
parse_file_added_twice(pf) ==
    LET total_additions == SumOver(pf.hunks, "added")
        total_deletions == SumOver(pf.hunks, "added")
        target_path == IF pf.target_file # <<>> THEN pf.target_file ELSE pf.source_file
    IN [path      |-> strip_prefix(target_path),
        old_path  |-> strip_prefix(pf.source_file),
        status    |-> file_status(pf),
        additions |-> total_additions,
        deletions |-> total_deletions,
        changes   |-> total_additions + total_deletions,
        hunks     |-> [h \in 1..Len(pf.hunks) |-> parse_hunk(pf.hunks[h])]]

\* _parse_file
parse_file(pf) ==
    LET total_additions == SumOver(pf.hunks, "added")
        total_deletions == SumOver(pf.hunks, "removed")
        target_path == IF pf.target_file # <<>> THEN pf.target_file ELSE pf.source_file
    IN [path      |-> strip_prefix(target_path),
        old_path  |-> strip_prefix(pf.source_file),
        status    |-> file_status(pf),
        additions |-> total_additions,
        deletions |-> total_deletions,
        changes   |-> total_additions + total_deletions,
        hunks     |-> [h \in 1..Len(pf.hunks) |-> parse_hunk(pf.hunks[h])]]

----
\* create_side_by_side_lines

hunk_header_row(hunk) ==
    [type      |-> "hunk_header",
     content   |-> hunk.section_header,
     old_start |-> hunk.old_start,
     new_start |-> hunk.new_start]

context_row(line) ==
    [type  |-> "context",
     left  |-> [line_num |-> line.old_line_num, content |-> line.content],
     right |-> [line_num |-> line.new_line_num, content |-> line.content]]

EmptyCell == [line_num |-> None, content |-> <<>>, type |-> "empty"]

left_cell(line) ==
    [line_num |-> line.old_line_num, content |-> line.content, type |-> "deletion"]

right_cell(line) ==
    [line_num |-> line.new_line_num, content |-> line.content, type |-> "addition"]

\* The index at which `while i < len(lines) and lines[i]["type"] == t: i += 1` stops.
RECURSIVE run_end(_, _, _)
run_end(lines, j, t) ==
    IF j < Len(lines) /\ lines[j + 1].type = t THEN run_end(lines, j + 1, t) ELSE j

\* The pairing cut at the shorter run: the longer run's excess is dropped.
change_rows_min(lines, i0, d_end, a_end) ==
    LET d == d_end - i0
        a == a_end - d_end
    IN [j \in 1..(IF d <= a THEN d ELSE a) |->
            [type  |-> "change",
             left  |-> left_cell(lines[i0 + j]),
             right |-> right_cell(lines[d_end + j])]]

\* The pairing running one row too far: a last row with nothing on either side.
change_rows_extra(lines, i0, d_end, a_end) ==
    LET d == d_end - i0
        a == a_end - d_end
    IN [j \in 1..(Max(d, a) + 1) |->
            [type  |-> "change",
             left  |-> IF j <= d THEN left_cell(lines[i0 + j]) ELSE EmptyCell,
             right |-> IF j <= a THEN right_cell(lines[d_end + j]) ELSE EmptyCell]]

\* The pairing with the addition run taken from its end.
change_rows_swapped(lines, i0, d_end, a_end) ==
    LET d == d_end - i0
        a == a_end - d_end
    IN [j \in 1..Max(d, a) |->
            [type  |-> "change",
             left  |-> IF j <= d THEN left_cell(lines[i0 + j]) ELSE EmptyCell,
             right |-> IF j <= a THEN right_cell(lines[a_end - j + 1]) ELSE EmptyCell]]

\* The rows of one deletion run (lines[i .. d_end - 1]) paired with the
\* addition run that follows it (lines[d_end .. a_end - 1]).
change_rows(lines, i0, d_end, a_end) ==
    LET d == d_end - i0
        a == a_end - d_end
    IN [j \in 1..Max(d, a) |->
            [type  |-> "change",
             left  |-> IF j <= d THEN left_cell(lines[i0 + j]) ELSE EmptyCell,
             right |-> IF j <= a THEN right_cell(lines[d_end + j]) ELSE EmptyCell]]

\* The pass with no branch for a standalone addition: it is skipped.
align_line_skip(lines, i0) ==
    LET line == lines[i0 + 1]
    IN CASE line.type = "context" ->
              [i |-> i0 + 1, rows |-> <<context_row(line)>>]
         [] line.type = "deletion" ->
              LET d_end == run_end(lines, i0, "deletion")
                  a_end == run_end(lines, d_end, "addition")
              IN [i |-> a_end, rows |-> change_rows(lines, i0, d_end, a_end)]
         [] OTHER ->
              [i |-> i0 + 1, rows |-> <<>>]

\* One pass of the body of `while i < len(hunk["lines"])`: the rows it
\* appends and the value it leaves in i.
align_line(lines, i0) ==
    LET line == lines[i0 + 1]
    IN CASE line.type = "context" ->
              [i |-> i0 + 1, rows |-> <<context_row(line)>>]
         [] line.type = "deletion" ->
              LET d_end == run_end(lines, i0, "deletion")
                  a_end == run_end(lines, d_end, "addition")
              IN [i |-> a_end, rows |-> change_rows(lines, i0, d_end, a_end)]
         [] line.type = "addition" ->
              [i |-> i0 + 1,
               rows |-> <<[type |-> "change", left |-> EmptyCell, right |-> right_cell(line)]>>]
         [] OTHER ->
              [i |-> i0 + 1, rows |-> <<>>]

----
\* _group_lines_into_hunks

NoHunk == [none |-> TRUE]

\* original_hunk.get(key, default), original_hunk being {} when absent
get(original_hunks, idx, key, default) ==
    IF idx >= 1 /\ idx <= Len(original_hunks) THEN original_hunks[idx][key] ELSE default

\* The `for line_pair in side_by_side_lines` loop from its k-th row on;
\* hunk_index is the code's 0-based index.
RECURSIVE group_loop(_, _, _, _, _, _)
group_loop(rows, k, original_hunks, rendered_hunks, current_hunk, hunk_index) ==
    IF k > Len(rows)
    THEN IF current_hunk # NoHunk THEN Append(rendered_hunks, current_hunk)
         ELSE rendered_hunks
    ELSE LET line_pair == rows[k]
         IN IF line_pair.type = "hunk_header"
            THEN group_loop(rows, k + 1, original_hunks,
                    IF current_hunk # NoHunk THEN Append(rendered_hunks, current_hunk)
                    ELSE rendered_hunks,
                    [old_start      |-> line_pair.old_start,
                     old_count      |-> get(original_hunks, hunk_index + 1, "old_count", 0),
                     new_start      |-> line_pair.new_start,
                     new_count      |-> get(original_hunks, hunk_index + 1, "new_count", 0),
                     section_header |-> line_pair.content,
                     lines          |-> <<>>],
                    hunk_index + 1)
            ELSE LET started ==
                        IF current_hunk = NoHunk
                        THEN [old_start      |-> get(original_hunks, 1, "old_start", 1),
                              old_count      |-> get(original_hunks, 1, "old_count", 0),
                              new_start      |-> get(original_hunks, 1, "new_start", 1),
                              new_count      |-> get(original_hunks, 1, "new_count", 0),
                              section_header |-> "",
                              lines          |-> <<>>]
                        ELSE current_hunk
                 IN group_loop(rows, k + 1, original_hunks, rendered_hunks,
                        [started EXCEPT !.lines = Append(@, line_pair)], hunk_index)

group_lines_into_hunks(rows, original_hunks) ==
    IF rows = <<>> THEN <<>>
    ELSE group_loop(rows, 1, original_hunks, <<>>, NoHunk, 0)

rendered_file(file_data, rendered_hunks) ==
    [path      |-> file_data.path,
     old_path  |-> file_data.old_path,
     status    |-> file_data.status,
     additions |-> file_data.additions,
     deletions |-> file_data.deletions,
     changes   |-> file_data.changes,
     hunks     |-> rendered_hunks]

----
\* get_file_summary

\* The loop storing 1 for a status instead of counting its files.
RECURSIVE count_by_status_once(_, _, _)
count_by_status_once(fs, k, files_by_status) ==
    IF k > Len(fs) THEN files_by_status
    ELSE LET status == fs[k].status
         IN count_by_status_once(fs, k + 1,
                IF status \in DOMAIN files_by_status
                THEN [files_by_status EXCEPT ![status] = 1]
                ELSE files_by_status @@ (status :> 1))

\* The `for file_data in files` loop that fills files_by_status.
RECURSIVE count_by_status(_, _, _)
count_by_status(fs, k, files_by_status) ==
    IF k > Len(fs) THEN files_by_status
    ELSE LET status == fs[k].status
         IN count_by_status(fs, k + 1,
                IF status \in DOMAIN files_by_status
                THEN [files_by_status EXCEPT ![status] = @ + 1]
                ELSE files_by_status @@ (status :> 1))

get_file_summary(fs) ==
    LET total_additions == SumOver(fs, "additions")
        total_deletions == SumOver(fs, "deletions")
    IN [total_files     |-> Len(fs),
        total_additions |-> total_additions,
        total_deletions |-> total_deletions,
        total_changes   |-> total_additions + total_deletions,
        files_by_status |-> count_by_status(fs, 1, <<>>)]

----
\* The call parse_git_diff_for_rendering(diff_text)

Pending == [kind |-> "pending"]

\* No DiffService call is under way.
ServiceIdle ==
    /\ diff_data = <<>>
    /\ svc_pc = "idle"
    /\ processed_diff = Pending

\* No DiffWatcher has been made.
WatcherIdle ==
    /\ now = 0
    /\ debounce_seconds = 0
    /\ ignore_patterns = <<>>
    /\ last_event_time = 0
    /\ debounce_timer = None
    /\ timers = <<>>
    /\ event_queue = <<>>
    /\ events = <<>>
    /\ handled = 0
    /\ last_path = <<>>

\* No path is being validated.
SafetyIdle ==
    /\ file_path = <<>>
    /\ safe = Pending

\* No stream has been opened.
ManagerIdle ==
    /\ observer = None
    /\ observers = <<>>
    /\ clients = <<>>
    /\ lock = None
    /\ client_id_counter = 0
    /\ stream = <<>>

\* No parser call is under way.
ParserIdle ==
    /\ diff = BlankDiff
    /\ pc = "idle"
    /\ patch_set = <<>>
    /\ files = <<>>
    /\ parsed_files = <<>>
    /\ rendered_files = <<>>
    /\ file_idx = 0
    /\ hunk_idx = 0
    /\ i = 0
    /\ side_by_side_lines = <<>>
    /\ row_hunk = <<>>
    /\ exc = ""
    /\ message = <<>>
    /\ result = Pending
    /\ summary = Pending
    /\ calls = <<>>

\* The locals of a call that has been entered with its argument.
Entered ==
    /\ patch_set = <<>>
    /\ files = <<>>
    /\ parsed_files = <<>>
    /\ rendered_files = <<>>
    /\ file_idx = 0
    /\ hunk_idx = 0
    /\ i = 0
    /\ side_by_side_lines = <<>>
    /\ row_hunk = <<>>
    /\ exc = ""
    /\ message = <<>>
    /\ result = Pending
    /\ summary = Pending

Init ==
    /\ calls = <<>>
    /\ ServiceIdle
    /\ WatcherIdle
    /\ SafetyIdle
    /\ ManagerIdle
    /\ diff \in Diffs
    /\ pc = "start"
    /\ Entered

\* unidiff raises for a body line whose marker it does not know.
patch_set_raises(d) ==
    \E f \in 1..Len(d.files) : \E h \in 1..Len(d.files[f].hunks) :
        \E k \in 1..Len(d.files[f].hunks[h].lines) :
            d.files[f].hunks[h].lines[k].line_type \notin LineTypes

\* The body lines of d, as <<file, hunk, line>> positions.
LinePositions(d) ==
    UNION {UNION {{<<f, h, k>> : k \in 1..Len(d.files[f].hunks[h].lines)} :
                    h \in 1..Len(d.files[f].hunks)} :
            f \in 1..Len(d.files)}

Precedes(p, q) ==
    \/ p[1] < q[1]
    \/ p[1] = q[1] /\ p[2] < q[2]
    \/ p[1] = q[1] /\ p[2] = q[2] /\ p[3] <= q[3]

\* The first body line unidiff does not accept.
first_bad_line(d) ==
    LET bad == {p \in LinePositions(d) :
                    d.files[p[1]].hunks[p[2]].lines[p[3]].line_type \notin LineTypes}
    IN CHOOSE p \in bad : \A q \in bad : Precedes(p, q)

\* str(e) of unidiff's error: the offending line of the text.
patch_set_error(d) ==
    LET p == first_bad_line(d)
        line == d.files[p[1]].hunks[p[2]].lines[p[3]]
    IN <<"Hunk diff line expected: ", line.line_type>> \o line.value

\* Blank text treated as a malformed diff.
ReturnEmptyRaises ==
    /\ pc = "start"
    /\ diff.blank
    /\ exc' = "ValueError"
    /\ message' = <<"empty diff">>
    /\ pc' = "except_parse"
    /\ UNCHANGED <<diff, patch_set, files, parsed_files, rendered_files, file_idx,
                   hunk_idx, i, side_by_side_lines, row_hunk, result, summary>>
    /\ UNCHANGED ext

\* parse_git_diff: `if not diff_text.strip(): return []`
ReturnEmpty ==
    /\ pc = "start"
    /\ diff.blank
    /\ parsed_files' = <<>>
    /\ file_idx' = 1
    /\ pc' = "render_for"
    /\ UNCHANGED <<diff, patch_set, files, rendered_files, hunk_idx, i,
                   side_by_side_lines, row_hunk, exc, result>>
    /\ UNCHANGED <<message, summary>>
    /\ UNCHANGED ext

\* parse_git_diff: PatchSet(diff_text) raises
PatchSetRaises ==
    /\ pc = "start"
    /\ ~diff.blank
    /\ patch_set_raises(diff)
    /\ exc' = "UnidiffParseError"
    /\ message' = patch_set_error(diff)
    /\ pc' = "except_parse"
    /\ UNCHANGED <<diff, patch_set, files, parsed_files, rendered_files, file_idx,
                   hunk_idx, i, side_by_side_lines, row_hunk, result>>
    /\ UNCHANGED summary
    /\ UNCHANGED ext

\* parse_git_diff: patch_set = PatchSet(diff_text)
PatchSetOk ==
    /\ pc = "start"
    /\ ~diff.blank
    /\ ~patch_set_raises(diff)
    /\ patch_set' = diff.files
    /\ pc' = "parse_for"
    /\ UNCHANGED <<diff, files, parsed_files, rendered_files, file_idx, hunk_idx, i,
                   side_by_side_lines, row_hunk, exc, result>>
    /\ UNCHANGED <<message, summary>>
    /\ UNCHANGED ext

\* parse_git_diff: one pass of `for patched_file in patch_set`
ParseFile ==
    /\ pc = "parse_for"
    /\ Len(files) < Len(patch_set)
    /\ files' = Append(files, parse_file(patch_set[Len(files) + 1]))
    /\ UNCHANGED <<diff, pc, patch_set, parsed_files, rendered_files, file_idx,
                   hunk_idx, i, side_by_side_lines, row_hunk, exc, result>>
    /\ UNCHANGED <<message, summary>>
    /\ UNCHANGED ext

\* parse_git_diff: `return files`
ParseReturn ==
    /\ pc = "parse_for"
    /\ Len(files) = Len(patch_set)
    /\ parsed_files' = files
    /\ file_idx' = 1
    /\ pc' = "render_for"
    /\ UNCHANGED <<diff, patch_set, files, rendered_files, hunk_idx, i,
                   side_by_side_lines, row_hunk, exc, result>>
    /\ UNCHANGED <<message, summary>>
    /\ UNCHANGED ext

\* parse_git_diff: `except Exception as e: raise DiffParseError(...)`
ExceptParse ==
    /\ pc = "except_parse"
    /\ exc' = "DiffParseError"
    /\ message' = <<"Diff parsing failed: ">> \o message
    /\ pc' = "except_render"
    /\ UNCHANGED <<diff, patch_set, files, parsed_files, rendered_files, file_idx,
                   hunk_idx, i, side_by_side_lines, row_hunk, result>>
    /\ UNCHANGED summary
    /\ UNCHANGED ext

\* The handler falling back to what has been rendered so far.
ExceptRenderPartial ==
    /\ pc = "except_render"
    /\ result' = [kind |-> "return", files |-> rendered_files]
    /\ pc' = "done"
    /\ UNCHANGED <<diff, patch_set, files, parsed_files, rendered_files, file_idx,
                   hunk_idx, i, side_by_side_lines, row_hunk, exc>>
    /\ UNCHANGED <<message, summary>>
    /\ UNCHANGED ext

\* parse_git_diff_for_rendering: `except Exception as e: raise DiffParseError(...)`
ExceptRender ==
    /\ pc = "except_render"
    /\ exc' = "DiffParseError"
    /\ message' = <<"Diff parsing for rendering failed: ">> \o message
    /\ result' = [kind |-> "raise", exc |-> exc', message |-> message']
    /\ pc' = "done"
    /\ UNCHANGED <<diff, patch_set, files, parsed_files, rendered_files, file_idx,
                   hunk_idx, i, side_by_side_lines, row_hunk>>
    /\ UNCHANGED summary
    /\ UNCHANGED ext

\* parse_git_diff_for_rendering: the next file_data enters create_side_by_side_lines
RenderBegin ==
    /\ pc = "render_for"
    /\ file_idx <= Len(parsed_files)
    /\ side_by_side_lines' = <<>>
    /\ row_hunk' = <<>>
    /\ hunk_idx' = 1
    /\ pc' = "align_for"
    /\ UNCHANGED <<diff, patch_set, files, parsed_files, rendered_files, file_idx, i,
                   exc, result>>
    /\ UNCHANGED <<message, summary>>
    /\ UNCHANGED ext

\* create_side_by_side_lines: the next hunk; its header row when it has a
\* section header; i = 0
AlignHunkHeader ==
    /\ pc = "align_for"
    /\ hunk_idx <= Len(parsed_files[file_idx].hunks)
    /\ LET hunk == parsed_files[file_idx].hunks[hunk_idx]
       IN /\ IF hunk.section_header # ""
             THEN /\ side_by_side_lines' = Append(side_by_side_lines, hunk_header_row(hunk))
                  /\ row_hunk' = Append(row_hunk, hunk_idx)
             ELSE UNCHANGED <<side_by_side_lines, row_hunk>>
          /\ i' = 0
          /\ IF Len(hunk.lines) > 0
             THEN pc' = "align_while" /\ UNCHANGED hunk_idx
             ELSE pc' = "align_for" /\ hunk_idx' = hunk_idx + 1
    /\ UNCHANGED <<diff, patch_set, files, parsed_files, rendered_files, file_idx,
                   exc, result>>
    /\ UNCHANGED <<message, summary>>
    /\ UNCHANGED ext

\* create_side_by_side_lines: one pass of `while i < len(hunk["lines"])`
AlignStep ==
    /\ pc = "align_while"
    /\ LET hunk == parsed_files[file_idx].hunks[hunk_idx]
           step == align_line(hunk.lines, i)
       IN /\ side_by_side_lines' = side_by_side_lines \o step.rows
          /\ row_hunk' = row_hunk \o [j \in 1..Len(step.rows) |-> hunk_idx]
          /\ i' = step.i
          /\ IF step.i < Len(hunk.lines)
             THEN UNCHANGED <<pc, hunk_idx>>
             ELSE pc' = "align_for" /\ hunk_idx' = hunk_idx + 1
    /\ UNCHANGED <<diff, patch_set, files, parsed_files, rendered_files, file_idx,
                   exc, result>>
    /\ UNCHANGED <<message, summary>>
    /\ UNCHANGED ext

\* parse_git_diff_for_rendering: _group_lines_into_hunks and
\* rendered_files.append(rendered_file)
RenderFile ==
    /\ pc = "align_for"
    /\ hunk_idx > Len(parsed_files[file_idx].hunks)
    /\ LET file_data == parsed_files[file_idx]
           rendered_hunks == group_lines_into_hunks(side_by_side_lines, file_data.hunks)
       IN rendered_files' = Append(rendered_files, rendered_file(file_data, rendered_hunks))
    /\ file_idx' = file_idx + 1
    /\ pc' = "render_for"
    /\ UNCHANGED <<diff, patch_set, files, parsed_files, hunk_idx, i,
                   side_by_side_lines, row_hunk, exc, result>>
    /\ UNCHANGED <<message, summary>>
    /\ UNCHANGED ext

\* parse_git_diff_for_rendering: `return rendered_files`
RenderReturn ==
    /\ pc = "render_for"
    /\ file_idx > Len(parsed_files)
    /\ result' = [kind |-> "return", files |-> rendered_files]
    /\ pc' = "done"
    /\ UNCHANGED <<diff, patch_set, files, parsed_files, rendered_files, file_idx,
                   hunk_idx, i, side_by_side_lines, row_hunk, exc>>
    /\ UNCHANGED <<message, summary>>
    /\ UNCHANGED ext

\* get_file_summary(files) on the returned list
Summarize ==
    /\ pc = "done"
    /\ result.kind = "return"
    /\ summary = Pending
    /\ summary' = get_file_summary(result.files)
    /\ UNCHANGED <<diff, pc, patch_set, files, parsed_files, rendered_files, file_idx,
                   hunk_idx, i, side_by_side_lines, row_hunk, exc, message, result>>
    /\ UNCHANGED ext

Next ==
    \/ ReturnEmpty
    \/ PatchSetRaises
    \/ PatchSetOk
    \/ ParseFile
    \/ ParseReturn
    \/ ExceptParse
    \/ ExceptRender
    \/ RenderBegin
    \/ AlignHunkHeader
    \/ AlignStep
    \/ RenderFile
    \/ RenderReturn
    \/ Summarize

Spec == Init /\ [][Next]_vars

----
\* Calls of parse_git_diff_for_rendering one after the other

\* Largest number of calls in a row.
MaxCalls == 3

\* The texts of the repeated calls: empty, not a diff, one hunk with a
\* section header, two hunks without one, a line unidiff rejects, and a
\* changed file followed by a deleted one.
RepeatDiffs ==
    {BlankDiff,
     NoFileDiff(<<"not a diff", "\n">>),
     [blank |-> FALSE,
      files |-> <<PatchedFile(FileNames[1], <<Hunk(1, 1, "def f():", <<" ", "-", "+">>)>>)>>],
     [blank |-> FALSE,
      files |-> <<PatchedFile(FileNames[1],
                    <<Hunk(1, 1, "", <<"-", "+">>), Hunk(4, 4, "", <<" ", "+">>)>>)>>],
     [blank |-> FALSE,
      files |-> <<PatchedFile(FileNames[1], <<Hunk(1, 1, "", <<"-", BadMarker>>)>>)>>],
     [blank |-> FALSE,
      files |-> <<PatchedFile(FileNames[1], <<Hunk(1, 1, "", <<"+">>)>>),
                  [source_file |-> <<"a/", FileNames[2]>>, target_file |-> DevNull,
                   hunks |-> <<Hunk(1, 0, "", <<"-">>)>>]>>]}

InitRepeat ==
    /\ calls = <<>>
    /\ ServiceIdle
    /\ WatcherIdle
    /\ SafetyIdle
    /\ ManagerIdle
    /\ diff \in RepeatDiffs
    /\ pc = "start"
    /\ Entered

\* The next call, with rendered_files a list that outlives the call.
CallAgainKeeps ==
    /\ pc = "done"
    /\ Len(calls) < MaxCalls - 1
    /\ calls' = Append(calls, [diff |-> diff, result |-> result])
    /\ diff' \in RepeatDiffs
    /\ pc' = "start"
    /\ patch_set' = <<>>
    /\ files' = <<>>
    /\ parsed_files' = <<>>
    /\ file_idx' = 0
    /\ hunk_idx' = 0
    /\ i' = 0
    /\ side_by_side_lines' = <<>>
    /\ row_hunk' = <<>>
    /\ exc' = ""
    /\ message' = <<>>
    /\ result' = Pending
    /\ summary' = Pending
    /\ UNCHANGED <<rendered_files, service, watcher, safety, manager>>

\* The call has ended; parse_git_diff_for_rendering is entered again, with
\* any text: every name of the function is a local of the new call.
CallAgain ==
    /\ pc = "done"
    /\ Len(calls) < MaxCalls - 1
    /\ calls' = Append(calls, [diff |-> diff, result |-> result])
    /\ diff' \in RepeatDiffs
    /\ pc' = "start"
    /\ patch_set' = <<>>
    /\ files' = <<>>
    /\ parsed_files' = <<>>
    /\ rendered_files' = <<>>
    /\ file_idx' = 0
    /\ hunk_idx' = 0
    /\ i' = 0
    /\ side_by_side_lines' = <<>>
    /\ row_hunk' = <<>>
    /\ exc' = ""
    /\ message' = <<>>
    /\ result' = Pending
    /\ summary' = Pending
    /\ UNCHANGED <<service, watcher, safety, manager>>

NextRepeat ==
    \/ ReturnEmpty
    \/ PatchSetRaises
    \/ PatchSetOk
    \/ ParseFile
    \/ ParseReturn
    \/ ExceptParse
    \/ ExceptRender
    \/ RenderBegin
    \/ AlignHunkHeader
    \/ AlignStep
    \/ RenderFile
    \/ RenderReturn
    \/ CallAgain

SpecRepeat == InitRepeat /\ [][NextRepeat]_vars

----
\* DiffService._process_single_diff(diff)

\* The values of diff["content"]: the texts above and a whitespace-only one.
\* BlankDiff is the empty string.
ServiceContents == RepeatDiffs \cup {NoFileDiff(<<" ", "\n">>)}

\* The dictionaries GitRepository.get_diff makes for a file.
DiffDicts ==
    [path : {<<"svc.py">>}, content : ServiceContents,
     status : {"modified", "added", "deleted", "untracked"},
     additions : {5}, deletions : {2}, changes : {7}]

\* Python's truth value of a text: false for the empty string only.
truthy(content) == ~("text" \in DOMAIN content /\ content.text = <<>>)

\* formatted_diff.update({...}) with the five values of diff
update(formatted_diff, d) ==
    [formatted_diff EXCEPT !.path = d.path, !.additions = d.additions,
                           !.deletions = d.deletions, !.changes = d.changes,
                           !.status = d.status]

InitService ==
    /\ calls = <<>>
    /\ WatcherIdle
    /\ SafetyIdle
    /\ ManagerIdle
    /\ diff_data \in DiffDicts
    /\ svc_pc = "start"
    /\ processed_diff = Pending
    /\ diff = diff_data.content
    /\ pc = "idle"
    /\ Entered

\* `if diff.get("content") and diff.get("status") != "untracked"` is false:
\* `return diff`
ProcessSkip ==
    /\ svc_pc = "start"
    /\ ~(truthy(diff_data.content) /\ diff_data.status # "untracked")
    /\ processed_diff' = [kind |-> "return", value |-> diff_data]
    /\ svc_pc' = "done"
    /\ UNCHANGED <<parser, calls, diff_data, watcher, safety, manager>>

\* The condition is true: parse_git_diff_for_rendering(diff["content"]) is called
ProcessCall ==
    /\ svc_pc = "start"
    /\ truthy(diff_data.content) /\ diff_data.status # "untracked"
    /\ svc_pc' = "parsing"
    /\ pc' = "start"
    /\ UNCHANGED <<diff, patch_set, files, parsed_files, rendered_files, file_idx,
                   hunk_idx, i, side_by_side_lines, row_hunk, exc, message, result,
                   summary>>
    /\ UNCHANGED <<calls, diff_data, processed_diff, watcher, safety, manager>>

\* The handler without its `except DiffParseError`: the error reaches the caller.
ProcessReturnRaises ==
    /\ svc_pc = "parsing"
    /\ pc = "done"
    /\ processed_diff' =
            IF result.kind = "raise" THEN [kind |-> "raise", exc |-> result.exc]
            ELSE IF result.files # <<>>
            THEN [kind |-> "return", value |-> update(result.files[1], diff_data)]
            ELSE [kind |-> "return", value |-> diff_data]
    /\ svc_pc' = "done"
    /\ UNCHANGED <<parser, calls, diff_data, watcher, safety, manager>>

\* The call has ended: the first parsed file with the metadata of diff when
\* the list is not empty; diff itself when it is empty or DiffParseError
\* was caught
ProcessReturn ==
    /\ svc_pc = "parsing"
    /\ pc = "done"
    /\ processed_diff' =
            IF result.kind = "return" /\ result.files # <<>>
            THEN [kind |-> "return", value |-> update(result.files[1], diff_data)]
            ELSE [kind |-> "return", value |-> diff_data]
    /\ svc_pc' = "done"
    /\ UNCHANGED <<parser, calls, diff_data, watcher, safety, manager>>

NextService ==
    \/ ProcessSkip
    \/ ProcessCall
    \/ ReturnEmpty
    \/ PatchSetRaises
    \/ PatchSetOk
    \/ ParseFile
    \/ ParseReturn
    \/ ExceptParse
    \/ ExceptRender
    \/ RenderBegin
    \/ AlignHunkHeader
    \/ AlignStep
    \/ RenderFile
    \/ RenderReturn
    \/ ProcessReturn

SpecService == InitService /\ [][NextService]_vars

----
\* Paths. A path is a sequence of tokens: "/" and pieces of names, so that
\* <<"/", "repo", "-old", "/", "f">> is the text "/repo-old/f".

\* Longest file_path handed to _is_safe_file_path, in tokens.
MaxPathLen == 4

\* The repository directory, resolved.
RepoPath == <<"/", "repo">>

\* str.startswith
startswith(text, prefix) ==
    Len(text) >= Len(prefix) /\ SubSeq(text, 1, Len(prefix)) = prefix

\* `pattern in path` of two strings
contains(path, pattern) ==
    \E k \in 1..(Len(path) - Len(pattern) + 1) :
        SubSeq(path, k, k + Len(pattern) - 1) = pattern

\* The components of a path: what lies between its "/" tokens.
RECURSIVE components(_, _, _)
components(path, cur, acc) ==
    IF path = <<>> THEN Append(acc, cur)
    ELSE IF Head(path) = "/" THEN components(Tail(path), <<>>, Append(acc, cur))
    ELSE components(Tail(path), Append(cur, Head(path)), acc)

\* Empty and "." components dropped, ".." taking back the component before
\* it (and nothing at the root).
RECURSIVE collapse(_, _)
collapse(comps, acc) ==
    IF comps = <<>> THEN acc
    ELSE IF Head(comps) \in {<<>>, <<".">>} THEN collapse(Tail(comps), acc)
    ELSE IF Head(comps) = <<"..">>
         THEN collapse(Tail(comps),
                IF acc = <<>> THEN acc ELSE SubSeq(acc, 1, Len(acc) - 1))
    ELSE collapse(Tail(comps), Append(acc, Head(comps)))

RECURSIVE join(_)
join(comps) ==
    IF comps = <<>> THEN <<>> ELSE <<"/">> \o Head(comps) \o join(Tail(comps))

\* os.path.abspath and Path.resolve of an absolute path without symlinks
abspath(path) ==
    LET comps == collapse(components(path, <<>>, <<>>), <<>>)
    IN IF comps = <<>> THEN <<"/">> ELSE join(comps)

\* self.repo_path / file_path: an absolute file_path replaces the left side
joinpath(base, path) ==
    IF path # <<>> /\ Head(path) = "/" THEN path ELSE base \o <<"/">> \o path

\* GitRepository._is_safe_file_path
is_safe_file_path(path) ==
    LET full_path == abspath(joinpath(RepoPath, path))
    IN startswith(full_path, abspath(RepoPath))

\* The arguments: every text of up to MaxPathLen tokens that does not
\* start with "//" (which pathlib keeps apart from "/").
FilePaths ==
    {q \in UNION {[1..n -> {"/", "..", "f", "repo", "-old"}] : n \in 1..MaxPathLen} :
        ~startswith(q, <<"/", "/">>)}

InitSafePath ==
    /\ ParserIdle
    /\ ServiceIdle
    /\ WatcherIdle
    /\ ManagerIdle
    /\ file_path \in FilePaths
    /\ safe = Pending

\* The call self._is_safe_file_path(file_path)
IsSafeFilePath ==
    /\ safe = Pending
    /\ safe' = [kind |-> "return", value |-> is_safe_file_path(file_path)]
    /\ UNCHANGED <<parser, calls, service, watcher, manager, file_path>>

NextSafePath == IsSafeFilePath

SpecSafePath == InitSafePath /\ [][NextSafePath]_vars

----
\* DiffWatcher

\* Largest debounce_seconds, in ticks of the clock.
MaxDebounce == 2
\* Ticks of the clock after the watcher is made.
MaxTime == 6
\* Largest number of on_any_event calls.
MaxEvents == 3

\* The ignore_patterns argument: None or the empty list (<<>>, both false
\* in Python), or a list of patterns.
PatternArgs == {<<>>, <<<<".git">>>>, <<<<"build">>>>}

\* __init__: `ignore_patterns or [".git"]`, and ".git" appended when missing
init_patterns(arg) ==
    LET given == IF arg = <<>> THEN <<<<".git">>>> ELSE arg
    IN IF \E k \in 1..Len(given) : given[k] = <<".git">> THEN given
       ELSE Append(given, <<".git">>)

\* should_ignore
should_ignore(patterns, path) ==
    \E k \in 1..Len(patterns) : contains(path, patterns[k])

\* src_path of the events: a file of the repository, one under .git, one
\* under build, .gitignore, a file of another directory, one reached from
\* the repository through "..", and one of a directory next to the
\* repository whose name starts with the repository's.
EventPaths ==
    {<<"/", "repo", "/", "f">>,
     <<"/", "repo", "/", ".git", "/", "f">>,
     <<"/", "repo", "/", "build", "/", "f">>,
     <<"/", "repo", "/", ".git", "ignore">>,
     <<"/", "other", "/", "f">>,
     <<"/", "repo", "/", "..", "/", "other", "/", "f">>,
     <<"/", "repo", "-old", "/", "f">>}

InitWatcher ==
    /\ ParserIdle
    /\ ServiceIdle
    /\ SafetyIdle
    /\ ManagerIdle
    /\ debounce_seconds \in 1..MaxDebounce
    /\ now = debounce_seconds
    /\ \E arg \in PatternArgs : ignore_patterns = init_patterns(arg)
    /\ last_event_time = 0
    /\ debounce_timer = None
    /\ timers = <<>>
    /\ event_queue = <<>>
    /\ events = <<>>
    /\ handled = 0
    /\ last_path = <<>>

\* The handler never cancelling the timer that is pending.
on_any_event_no_cancel(src_path) ==
    /\ handled < MaxEvents
    /\ handled' = handled + 1
    /\ last_path' = src_path
    /\ IF should_ignore(ignore_patterns, src_path)
       THEN UNCHANGED <<last_event_time, debounce_timer, timers, events>>
       ELSE IF ~startswith(abspath(src_path), RepoPath)
       THEN UNCHANGED <<last_event_time, debounce_timer, timers, events>>
       ELSE /\ timers' = Append(timers, [deadline |-> now + debounce_seconds,
                                         state |-> "waiting"])
            /\ debounce_timer' = Len(timers')
            /\ last_event_time' = now
            /\ events' = Append(events, now)
    /\ UNCHANGED <<now, debounce_seconds, ignore_patterns, event_queue>>
    /\ UNCHANGED <<parser, calls, service, safety, manager>>

\* on_any_event(event), event.src_path = src_path
on_any_event(src_path) ==
    /\ handled < MaxEvents
    /\ handled' = handled + 1
    /\ last_path' = src_path
    /\ IF should_ignore(ignore_patterns, src_path)
       THEN UNCHANGED <<last_event_time, debounce_timer, timers, events>>
       ELSE IF ~startswith(abspath(src_path), RepoPath)
       THEN UNCHANGED <<last_event_time, debounce_timer, timers, events>>
       ELSE LET current_time == now
                cancel == /\ current_time - last_event_time < debounce_seconds
                          /\ debounce_timer # None
                          /\ timers[debounce_timer].state = "waiting"
                kept == IF cancel
                        THEN [timers EXCEPT ![debounce_timer].state = "cancelled"]
                        ELSE timers
            IN /\ timers' = Append(kept, [deadline |-> now + debounce_seconds,
                                          state |-> "waiting"])
               /\ debounce_timer' = Len(timers')
               /\ last_event_time' = current_time
               /\ events' = Append(events, current_time)
    /\ UNCHANGED <<now, debounce_seconds, ignore_patterns, event_queue>>
    /\ UNCHANGED <<parser, calls, service, safety, manager>>

OnAnyEvent == \E src_path \in EventPaths : on_any_event(src_path)

\* A timer's interval has passed: _send_event
SendEvent ==
    \E k \in 1..Len(timers) :
        /\ timers[k].state = "waiting"
        /\ timers[k].deadline <= now
        /\ timers' = [timers EXCEPT ![k].state = "fired"]
        /\ event_queue' = Append(event_queue, [type |-> "change", timestamp |-> now])
        /\ UNCHANGED <<now, debounce_seconds, ignore_patterns, last_event_time,
                       debounce_timer, events, handled, last_path>>
        /\ UNCHANGED <<parser, calls, service, safety, manager>>

\* The clock advances; a timer that is due fires first.
Tick ==
    /\ now < debounce_seconds + MaxTime
    /\ \A k \in 1..Len(timers) : timers[k].state = "waiting" => timers[k].deadline > now
    /\ now' = now + 1
    /\ UNCHANGED <<debounce_seconds, ignore_patterns, last_event_time, debounce_timer,
                   timers, event_queue, events, handled, last_path>>
    /\ UNCHANGED <<parser, calls, service, safety, manager>>

NextWatcher ==
    \/ OnAnyEvent
    \/ SendEvent
    \/ Tick

SpecWatcher == InitWatcher /\ [][NextWatcher]_vars

----
\* WatchManager and the event_stream generators of watch_changes

\* Number of requests that can be open at once.
MaxStreams == 2

Streams == 1..MaxStreams

\* A generator that has not been started.
NewStream ==
    [pc         |-> "idle",
     client_id  |-> None,  \* the local client_id of event_stream
     out        |-> <<>>,  \* history: the events it has yielded
     registered |-> None,  \* history: the id add_client put into clients for it
     removes    |-> <<>>]  \* history: the ids it has passed to remove_client

\* What is outside the manager.
outside == <<parser, calls, service, watcher, safety>>

InitWatch ==
    /\ ParserIdle
    /\ ServiceIdle
    /\ WatcherIdle
    /\ SafetyIdle
    /\ observer = None
    /\ observers = <<>>
    /\ clients = <<>>
    /\ lock = None
    /\ client_id_counter = 0
    /\ stream = [t \in Streams |-> NewStream]

\* The streams that may still register a client.
Registering == {t \in Streams : stream[t].pc \in {"add_client", "locked_add"}}

\* The first next() on a generator: GitService() and the two settings are
\* read; add_client is about to be called
StreamBegin(t) ==
    /\ stream[t].pc \in {"idle", "ended"}
    /\ client_id_counter + Cardinality(Registering) <= MaxStreams
    /\ stream' = [stream EXCEPT ![t] = [NewStream EXCEPT !.pc = "add_client"]]
    /\ UNCHANGED <<observer, observers, clients, lock, client_id_counter, outside>>

\* GitService() or float(os.getenv(...)) raises: `except Exception`
SetupRaises(t) ==
    /\ stream[t].pc \in {"idle", "ended"}
    /\ stream' = [stream EXCEPT ![t] = [NewStream EXCEPT !.pc = "except"]]
    /\ UNCHANGED <<observer, observers, clients, lock, client_id_counter, outside>>

\* add_client: `with self.lock`
AddAcquire(t) ==
    /\ stream[t].pc = "add_client"
    /\ lock = None
    /\ lock' = t
    /\ stream' = [stream EXCEPT ![t].pc = "locked_add"]
    /\ UNCHANGED <<observer, observers, clients, client_id_counter, outside>>

\* add_client under the lock: the client is put into the table, the
\* observer is made and started when there is none, the lock is released
\* and `client_id, event_queue = ...` is assigned
AddClient(t) ==
    /\ stream[t].pc = "locked_add"
    /\ LET client_id == client_id_counter
       IN /\ client_id_counter' = client_id_counter + 1
          /\ clients' = clients @@ (client_id :> <<>>)
          /\ IF observer = None
             THEN /\ observers' = Append(observers, "running")
                  /\ observer' = Len(observers')
             ELSE UNCHANGED <<observer, observers>>
          /\ stream' = [stream EXCEPT ![t].pc = "yield_connected",
                                      ![t].client_id = client_id,
                                      ![t].registered = client_id]
    /\ lock' = None
    /\ UNCHANGED outside

\* add_client under the lock, with observer.schedule() or observer.start()
\* raising (no watch can be set up): the client is in the table and
\* self.observer is set; the lock is released and the exception reaches
\* `except Exception` of event_stream, whose client_id is still None
AddClientRaises(t) ==
    /\ stream[t].pc = "locked_add"
    /\ observer = None
    /\ LET client_id == client_id_counter
       IN /\ client_id_counter' = client_id_counter + 1
          /\ clients' = clients @@ (client_id :> <<>>)
          /\ observers' = Append(observers, "created")
          /\ observer' = Len(observers')
          /\ stream' = [stream EXCEPT ![t].pc = "except",
                                      ![t].registered = client_id]
    /\ lock' = None
    /\ UNCHANGED outside

\* `yield` of the connected event; the generator is suspended
YieldConnected(t) ==
    /\ stream[t].pc = "yield_connected"
    /\ stream' = [stream EXCEPT ![t].pc = "suspended",
                                ![t].out = Append(@, "connected")]
    /\ UNCHANGED <<observer, observers, clients, lock, client_id_counter, outside>>

\* next() on the suspended generator: `event_queue.get(timeout=30)` is reached
Resume(t) ==
    /\ stream[t].pc = "suspended"
    /\ stream' = [stream EXCEPT ![t].pc = "loop"]
    /\ UNCHANGED <<observer, observers, clients, lock, client_id_counter, outside>>

\* The queue holds an event: it is yielded
GetEvent(t) ==
    /\ stream[t].pc = "loop"
    /\ clients[stream[t].client_id] # <<>>
    /\ clients' = [clients EXCEPT ![stream[t].client_id] = Tail(@)]
    /\ stream' = [stream EXCEPT ![t].pc = "suspended",
                                ![t].out = Append(@, Head(clients[stream[t].client_id]))]
    /\ UNCHANGED <<observer, observers, lock, client_id_counter, outside>>

\* queue.Empty after the timeout: the keepalive comment is yielded
Keepalive(t) ==
    /\ stream[t].pc = "loop"
    /\ clients[stream[t].client_id] = <<>>
    /\ stream' = [stream EXCEPT ![t].pc = "suspended"]
    /\ UNCHANGED <<observer, observers, clients, lock, client_id_counter, outside>>

\* A statement of the loop raises: `except Exception`
LoopRaises(t) ==
    /\ stream[t].pc = "loop"
    /\ stream' = [stream EXCEPT ![t].pc = "except"]
    /\ UNCHANGED <<observer, observers, clients, lock, client_id_counter, outside>>

\* The client closes the connection: GeneratorExit at the yield, which
\* `except Exception` does not catch; `finally`
Close(t) ==
    /\ stream[t].pc = "suspended"
    /\ stream' = [stream EXCEPT ![t].pc = "finally"]
    /\ UNCHANGED <<observer, observers, clients, lock, client_id_counter, outside>>

\* The handler yields the error event; whether the generator is resumed
\* or closed then, `finally` is next
YieldError(t) ==
    /\ stream[t].pc = "except"
    /\ stream' = [stream EXCEPT ![t].pc = "finally", ![t].out = Append(@, "error")]
    /\ UNCHANGED <<observer, observers, clients, lock, client_id_counter, outside>>

\* `if client_id is not None` is false: the generator ends
FinallySkip(t) ==
    /\ stream[t].pc = "finally"
    /\ stream[t].client_id = None
    /\ stream' = [stream EXCEPT ![t].pc = "ended"]
    /\ UNCHANGED <<observer, observers, clients, lock, client_id_counter, outside>>

\* remove_client(client_id): `with self.lock`
RemoveAcquire(t) ==
    /\ stream[t].pc = "finally"
    /\ stream[t].client_id # None
    /\ lock = None
    /\ lock' = t
    /\ stream' = [stream EXCEPT ![t].pc = "locked_remove",
                                ![t].removes = Append(@, stream[t].client_id)]
    /\ UNCHANGED <<observer, observers, clients, client_id_counter, outside>>

\* remove_client under the lock: the client leaves the table; when the
\* table is empty the observer is stopped and joined and self.observer is
\* None; the lock is released and the generator ends
RemoveClient(t) ==
    /\ stream[t].pc = "locked_remove"
    /\ LET client_id == stream[t].client_id
           left == [c \in DOMAIN clients \ {client_id} |-> clients[c]]
       IN /\ clients' = left
          /\ IF DOMAIN left = {} /\ observer # None
             THEN /\ observers' = [observers EXCEPT ![observer] = "joined"]
                  /\ observer' = None
             ELSE UNCHANGED <<observer, observers>>
    /\ lock' = None
    /\ stream' = [stream EXCEPT ![t].pc = "ended"]
    /\ UNCHANGED <<client_id_counter, outside>>

\* The watcher's timer fires: BroadcastQueue.put gives the event to every
\* client queue
Broadcast ==
    /\ observer # None
    /\ observers[observer] = "running"
    /\ DOMAIN clients # {}
    /\ \A c \in DOMAIN clients : clients[c] = <<>>
    /\ \A t \in Streams : \A k \in 1..Len(stream[t].out) : stream[t].out[k] # "change"
    /\ clients' = [c \in DOMAIN clients |-> Append(clients[c], "change")]
    /\ UNCHANGED <<observer, observers, lock, client_id_counter, stream, outside>>

NextWatch ==
    \/ \E t \in Streams : StreamBegin(t)
    \/ \E t \in Streams : SetupRaises(t)
    \/ \E t \in Streams : AddAcquire(t)
    \/ \E t \in Streams : AddClient(t)
    \/ \E t \in Streams : AddClientRaises(t)
    \/ \E t \in Streams : YieldConnected(t)
    \/ \E t \in Streams : Resume(t)
    \/ \E t \in Streams : GetEvent(t)
    \/ \E t \in Streams : Keepalive(t)
    \/ \E t \in Streams : LoopRaises(t)
    \/ \E t \in Streams : Close(t)
    \/ \E t \in Streams : YieldError(t)
    \/ \E t \in Streams : FinallySkip(t)
    \/ \E t \in Streams : RemoveAcquire(t)
    \/ \E t \in Streams : RemoveClient(t)
    \/ Broadcast

SpecWatch == InitWatch /\ [][NextWatch]_vars

----
\* Properties

Returned == pc = "done" /\ result.kind = "return"

\* The hunks the call returned for file f, and the hunks of its section.
OutHunks(f) == result.files[f].hunks
InHunks(f) == diff.files[f].hunks

LeftNums(hunk) == {k \in 1..Len(hunk.lines) : hunk.lines[k].left.line_num # None}
RightNums(hunk) == {k \in 1..Len(hunk.lines) : hunk.lines[k].right.line_num # None}

\* C1: in every returned hunk, old_count is the number of rows with a left
\* line number and new_count the number of rows with a right line number.
C1_LineCounts ==
    Returned =>
        \A f \in 1..Len(result.files) : \A h \in 1..Len(OutHunks(f)) :
            /\ OutHunks(f)[h].old_count = Cardinality(LeftNums(OutHunks(f)[h]))
            /\ OutHunks(f)[h].new_count = Cardinality(RightNums(OutHunks(f)[h]))

\* The content rows the aligner emitted for hunk h of the file in hand, in order.
RECURSIVE RowsOfHunk(_, _)
RowsOfHunk(h, k) ==
    IF k > Len(side_by_side_lines) THEN <<>>
    ELSE IF row_hunk[k] = h /\ side_by_side_lines[k].type # "hunk_header"
         THEN <<side_by_side_lines[k]>> \o RowsOfHunk(h, k + 1)
         ELSE RowsOfHunk(h, k + 1)

\* A file has just been rendered: its aligned rows are still in side_by_side_lines.
JustRendered == pc = "render_for" /\ file_idx > 1

\* C2: a rendered file has as many hunks as its section, in order, and the
\* rows of its k-th hunk are the rows aligned for the k-th hunk of the section.
C2_HunksKept ==
    JustRendered =>
        LET out == rendered_files[file_idx - 1].hunks
            inp == parsed_files[file_idx - 1].hunks
        IN /\ Len(out) = Len(inp)
           /\ \A k \in 1..Len(out) : out[k].lines = RowsOfHunk(k, 1)

\* C3: every returned hunk carries the four header numbers and the section
\* header of the hunk at the same position of the file section.
C3_HunkMetadata ==
    Returned =>
        \A f \in 1..Len(result.files) : \A h \in 1..Len(OutHunks(f)) :
            /\ h <= Len(InHunks(f))
            /\ OutHunks(f)[h].old_start = InHunks(f)[h].source_start
            /\ OutHunks(f)[h].old_count = InHunks(f)[h].source_length
            /\ OutHunks(f)[h].new_start = InHunks(f)[h].target_start
            /\ OutHunks(f)[h].new_count = InHunks(f)[h].target_length
            /\ OutHunks(f)[h].section_header = InHunks(f)[h].section_header

\* The classified lines of the hunk the aligner is scanning.
ScanLines == parsed_files[file_idx].hunks[hunk_idx].lines

\* lines[from .. from + n - 1] (0-based) is a maximal run of type t.
IsRun(lines, from, n, t) ==
    /\ from + n <= Len(lines)
    /\ \A m \in 1..n : lines[from + m].type = t
    /\ from + n < Len(lines) => lines[from + n + 1].type # t

\* C4: a run of d deletions followed by a run of a additions gives max(d, a)
\* change rows, row j pairing the j-th deletion (or an empty cell) with the
\* j-th addition (or an empty cell), and the scan moves on by d + a lines.
C4_DeletionRun ==
    [][(pc = "align_while" /\ ScanLines[i + 1].type = "deletion") =>
        \E d \in 1..Len(ScanLines) : \E a \in 0..Len(ScanLines) :
            /\ IsRun(ScanLines, i, d, "deletion")
            /\ IsRun(ScanLines, i + d, a, "addition")
            /\ i' = i + d + a
            /\ Len(side_by_side_lines') = Len(side_by_side_lines) + Max(d, a)
            /\ SubSeq(side_by_side_lines', 1, Len(side_by_side_lines)) = side_by_side_lines
            /\ \A j \in 0..(Max(d, a) - 1) :
                LET row == side_by_side_lines'[Len(side_by_side_lines) + j + 1]
                    del == ScanLines[i + j + 1]
                    add == ScanLines[i + d + j + 1]
                IN /\ row.type = "change"
                   /\ row.left = IF j < d
                                 THEN [line_num |-> del.old_line_num,
                                       content |-> del.content, type |-> "deletion"]
                                 ELSE [line_num |-> None, content |-> <<>>, type |-> "empty"]
                   /\ row.right = IF j < a
                                  THEN [line_num |-> add.new_line_num,
                                        content |-> add.content, type |-> "addition"]
                                  ELSE [line_num |-> None, content |-> <<>>, type |-> "empty"]
      ]_vars

\* The hunk just scanned to its end (hunk_idx has moved past it).
ScannedLines == parsed_files[file_idx].hunks[hunk_idx - 1].lines

\* Three deletions and one addition have been aligned into three rows.
C4_Witness ==
    /\ pc = "align_for" /\ hunk_idx = 2 /\ i = 4
    /\ [k \in 1..4 |-> ScannedLines[k].type] = <<"deletion", "deletion", "deletion", "addition">>
    /\ LET n == Len(side_by_side_lines)
       IN /\ n >= 3
          /\ side_by_side_lines[n - 2].right.type = "addition"
          /\ side_by_side_lines[n - 1].right.type = "empty"
          /\ side_by_side_lines[n].right.type = "empty"
          /\ side_by_side_lines[n].left.line_num = ScannedLines[3].old_line_num

ChangeRows(rows) == {k \in 1..Len(rows) : rows[k].type = "change"}

\* C5: no change row has both cells empty.
C5_NotBothEmpty ==
    /\ \A k \in ChangeRows(side_by_side_lines) :
        side_by_side_lines[k].left.type # "empty" \/ side_by_side_lines[k].right.type # "empty"
    /\ \A f \in 1..Len(rendered_files) : \A h \in 1..Len(rendered_files[f].hunks) :
        \A k \in ChangeRows(rendered_files[f].hunks[h].lines) :
            LET row == rendered_files[f].hunks[h].lines[k]
            IN row.left.type # "empty" \/ row.right.type # "empty"

\* A returned hunk holds a padded row after a full one: a run of unequal length.
C5_Witness ==
    /\ Returned
    /\ \E f \in 1..Len(result.files) : \E h \in 1..Len(OutHunks(f)) :
        \E k \in 2..Len(OutHunks(f)[h].lines) :
            LET rows == OutHunks(f)[h].lines
            IN /\ rows[k - 1].type = "change" /\ rows[k].type = "change"
               /\ rows[k - 1].left.type = "deletion" /\ rows[k - 1].right.type = "addition"
               /\ rows[k].left.type = "empty" /\ rows[k].right.type = "addition"

\* C6: an addition the scan reaches is not behind a deletion; it gives one
\* change row, empty on the left, and the scan moves on by one line.
C6_StandaloneAddition ==
    [][(pc = "align_while" /\ ScanLines[i + 1].type = "addition") =>
        /\ i = 0 \/ ScanLines[i].type \in {"context", "addition"}
        /\ i' = i + 1
        /\ side_by_side_lines' =
            Append(side_by_side_lines,
                [type  |-> "change",
                 left  |-> [line_num |-> None, content |-> <<>>, type |-> "empty"],
                 right |-> [line_num |-> ScanLines[i + 1].new_line_num,
                            content  |-> ScanLines[i + 1].content,
                            type     |-> "addition"]])
      ]_vars

\* An addition after a context line has been given its row.
C6_Witness ==
    /\ pc = "align_while" /\ i = 2
    /\ ScanLines[1].type = "context" /\ ScanLines[2].type = "addition"
    /\ LET row == side_by_side_lines[Len(side_by_side_lines)]
       IN /\ row.type = "change"
          /\ row.left.type = "empty"
          /\ row.right.line_num = ScanLines[2].new_line_num

\* Lines before the k-th whose marker is in ts.
Earlier(lines, k, ts) == Cardinality({m \in 1..(k - 1) : lines[m].line_type \in ts})

\* C7: the k-th line of a hunk gets old_start plus the earlier context and
\* deletion lines, and new_start plus the earlier context and addition lines;
\* a deletion has no new number and an addition no old number.
C7_LineNumbers ==
    \A f \in 1..Len(files) : \A h \in 1..Len(files[f].hunks) :
        LET hunk == patch_set[f].hunks[h]
            lines == files[f].hunks[h].lines
        IN /\ Len(lines) = Len(hunk.lines)
           /\ \A k \in 1..Len(lines) :
                LET t == hunk.lines[k].line_type
                IN /\ t \in {" ", "-"} =>
                        lines[k].old_line_num
                            = hunk.source_start + Earlier(hunk.lines, k, {" ", "-"})
                   /\ t \in {" ", "+"} =>
                        lines[k].new_line_num
                            = hunk.target_start + Earlier(hunk.lines, k, {" ", "+"})
                   /\ t = "-" => lines[k].new_line_num = None
                   /\ t = "+" => lines[k].old_line_num = None

\* A parsed hunk of a deletion, an addition and a context line, in that order.
C7_Witness ==
    /\ Len(files) = 1
    /\ Len(files[1].hunks) >= 1
    /\ [k \in 1..Len(patch_set[1].hunks[1].lines) |-> patch_set[1].hunks[1].lines[k].line_type]
            = <<"-", "+", " ">>
    /\ files[1].hunks[1].lines[3].old_line_num = patch_set[1].hunks[1].source_start + 1
    /\ files[1].hunks[1].lines[3].new_line_num = patch_set[1].hunks[1].target_start + 1

\* The non-null numbers of one side, top to bottom.
RECURSIVE SideNums(_, _, _)
SideNums(rows, side, k) ==
    IF k > Len(rows) THEN <<>>
    ELSE IF rows[k][side].line_num # None
         THEN <<rows[k][side].line_num>> \o SideNums(rows, side, k + 1)
         ELSE SideNums(rows, side, k + 1)

Consecutive(nums, start) == \A k \in 1..Len(nums) : nums[k] = start + k - 1

\* C8: in every returned hunk the left line numbers run old_start,
\* old_start + 1, ... and the right ones new_start, new_start + 1, ...
C8_ConsecutiveNumbers ==
    Returned =>
        \A f \in 1..Len(result.files) : \A h \in 1..Len(OutHunks(f)) :
            /\ Consecutive(SideNums(OutHunks(f)[h].lines, "left", 1), OutHunks(f)[h].old_start)
            /\ Consecutive(SideNums(OutHunks(f)[h].lines, "right", 1), OutHunks(f)[h].new_start)

\* The diff has a body line whose marker is none of ' ', '-', '+'.
HasOtherMarker ==
    \E f \in 1..Len(diff.files) : \E h \in 1..Len(InHunks(f)) :
        \E k \in 1..Len(InHunks(f)[h].lines) :
            InHunks(f)[h].lines[k].line_type \notin {" ", "-", "+"}

\* C9: a body line with a marker other than ' ', '-', '+' makes the parse
\* fail: the call raises and returns no hunk and no row for the line.
C9_OtherMarkerFails ==
    pc = "done" /\ HasOtherMarker => result.kind = "raise"

\* C10: a call in which an exception was raised ends by raising
\* DiffParseError and hands over no file list; a call returns files only when
\* nothing was raised.
C10_AllOrNothing ==
    /\ exc # "" => parsed_files = <<>> /\ rendered_files = <<>>
    /\ pc = "done" /\ exc # "" =>
        /\ result.kind = "raise"
        /\ result.exc = "DiffParseError"
        /\ "files" \notin DOMAIN result
    /\ pc = "done" /\ exc = "" => result.kind = "return"

\* The second file of a diff cannot be parsed and the call has raised.
C10_Witness ==
    /\ pc = "done" /\ result.kind = "raise"
    /\ Len(diff.files) = 2
    /\ \A k \in 1..Len(diff.files[1].hunks[1].lines) :
        diff.files[1].hunks[1].lines[k].line_type \in LineTypes
    /\ \E k \in 1..Len(diff.files[2].hunks[1].lines) :
        diff.files[2].hunks[1].lines[k].line_type \notin LineTypes

\* The body lines of a file section with marker t.
MarkerLines(pf, t) ==
    UNION {{<<h, k>> : k \in {m \in 1..Len(pf.hunks[h].lines) : pf.hunks[h].lines[m].line_type = t}} :
            h \in 1..Len(pf.hunks)}

\* The change rows of a returned file whose cell on `side` has type t.
CellRows(file, side, t) ==
    UNION {{<<h, k>> : k \in {m \in ChangeRows(file.hunks[h].lines) :
                                file.hunks[h].lines[m][side].type = t}} :
            h \in 1..Len(file.hunks)}

\* C11: a file's additions is the number of its '+' lines and of its rows
\* with an addition on the right, its deletions the number of its '-' lines
\* and of its rows with a deletion on the left; changes is their sum.
C11_AdditionsDeletions ==
    Returned =>
        \A f \in 1..Len(result.files) :
            LET file == result.files[f]
            IN /\ file.additions = Cardinality(MarkerLines(diff.files[f], "+"))
               /\ file.additions = Cardinality(CellRows(file, "right", "addition"))
               /\ file.deletions = Cardinality(MarkerLines(diff.files[f], "-"))
               /\ file.deletions = Cardinality(CellRows(file, "left", "deletion"))
               /\ file.changes = file.additions + file.deletions

\* A returned file of two hunks with context, two additions and one deletion.
C11_Witness ==
    /\ Returned
    /\ \E f \in 1..Len(result.files) :
        /\ Len(diff.files[f].hunks) = 2
        /\ Cardinality(MarkerLines(diff.files[f], " ")) = 1
        /\ result.files[f].additions = 2
        /\ result.files[f].deletions = 1
        /\ result.files[f].changes = 3

\* The path without its a/ or b/ marker.
BarePath(path) == IF Head(path) \in {"a/", "b/"} THEN Tail(path) ELSE path

\* Both sides of a file section exist.
BothExist(pf) == pf.source_file # DevNull /\ pf.target_file # DevNull

\* C12: a file section whose old and new path both exist and differ is
\* returned with status renamed.
C12_Renamed ==
    Returned =>
        \A f \in 1..Len(result.files) :
            (BothExist(diff.files[f])
                /\ BarePath(diff.files[f].source_file) # BarePath(diff.files[f].target_file))
            => result.files[f].status = "renamed"

\* C13: the status is added when the old path is /dev/null, else deleted
\* when the new path is /dev/null, and modified when both paths exist and
\* are equal; it is always one of the four statuses.
C13_StatusFromPaths ==
    Returned =>
        \A f \in 1..Len(result.files) :
            LET pf == diff.files[f]
                status == result.files[f].status
            IN /\ status \in {"added", "deleted", "modified", "renamed"}
               /\ pf.source_file = DevNull => status = "added"
               /\ pf.source_file # DevNull /\ pf.target_file = DevNull => status = "deleted"
               /\ (BothExist(pf) /\ BarePath(pf.source_file) = BarePath(pf.target_file))
                    => status = "modified"

\* A path that is not set (null).
NoPath == <<>>

\* C14: old_path is null for every added, deleted or modified file, and for
\* every file whose old path is /dev/null.
C14_OldPathOnlyRenamed ==
    Returned =>
        \A f \in 1..Len(result.files) :
            /\ result.files[f].status \in {"added", "deleted", "modified"}
                => result.files[f].old_path = NoPath
            /\ diff.files[f].source_file = DevNull => result.files[f].old_path = NoPath

\* The rows of side_by_side_lines emitted for hunk h that are header rows
\* (kind "hunk_header") or content rows (any other kind).
HeaderRowsOf(h) ==
    {k \in 1..Len(side_by_side_lines) :
        row_hunk[k] = h /\ side_by_side_lines[k].type = "hunk_header"}
ContentRowsOf(h) ==
    {k \in 1..Len(side_by_side_lines) :
        row_hunk[k] = h /\ side_by_side_lines[k].type # "hunk_header"}

\* C15: the row stream of a file holds exactly one hunk_header row for each
\* of its hunks, before the hunk's content rows, with the hunk's section
\* header, old_start and new_start.
C15_OneHeaderPerHunk ==
    JustRendered =>
        LET hunks == parsed_files[file_idx - 1].hunks
        IN \A h \in 1..Len(hunks) :
            /\ Cardinality(HeaderRowsOf(h)) = 1
            /\ \A k \in HeaderRowsOf(h) :
                /\ \A c \in ContentRowsOf(h) : k < c
                /\ side_by_side_lines[k].content = hunks[h].section_header
                /\ side_by_side_lines[k].old_start = hunks[h].old_start
                /\ side_by_side_lines[k].new_start = hunks[h].new_start

\* The input is text without a file section.
NoFileText == "text" \in DOMAIN diff

IsBlankText(text) == \A k \in 1..Len(text) : text[k] \in {" ", "\t", "\n", "\r"}

\* C16: the empty string and whitespace-only text give an empty file list
\* and no error.
C16_BlankGivesEmpty ==
    (pc = "done" /\ NoFileText /\ IsBlankText(diff.text)) =>
        /\ result = [kind |-> "return", files |-> <<>>]
        /\ exc = ""

\* Text of a tab and a line ending has been parsed.
C16_Witness ==
    /\ pc = "done" /\ NoFileText
    /\ diff.text = <<"\t", "\r", "\n">>
    /\ result.kind = "return"
    /\ result.files = <<>>

\* C17: non-blank text without any file section makes the call raise.
C17_GarbageFails ==
    (pc = "done" /\ NoFileText /\ ~IsBlankText(diff.text)) => result.kind = "raise"

\* C18: a file section without a hunk makes the call raise; no returned
\* file has an empty hunk list.
C18_NoHunkFails ==
    /\ (pc = "done" /\ \E f \in 1..Len(diff.files) : diff.files[f].hunks = <<>>)
            => result.kind = "raise"
    /\ Returned => \A f \in 1..Len(result.files) : result.files[f].hunks # <<>>

\* The file sections with a body line unidiff does not accept.
OffendingFiles ==
    {f \in 1..Len(diff.files) :
        \E h \in 1..Len(diff.files[f].hunks) :
            \E k \in 1..Len(diff.files[f].hunks[h].lines) :
                diff.files[f].hunks[h].lines[k].line_type \notin LineTypes}

\* C19: when a hunk of one file of a multi-file diff cannot be parsed, the
\* error the call raises names the path of that file.
C19_ErrorNamesFile ==
    (pc = "done" /\ result.kind = "raise" /\ Len(diff.files) >= 2) =>
        \E f \in OffendingFiles : \E k \in 1..Len(result.message) :
            result.message[k] = BarePath(diff.files[f].target_file)[1]

\* n units for each file, n being the file's value of field.
Units(fs, field) ==
    UNION {{<<f, n>> : n \in 1..fs[f][field]} : f \in 1..Len(fs)}

\* C20: the summary counts the files, sums their additions and deletions,
\* has total_changes = total_additions + total_deletions, and maps every
\* status that occurs to the number of files with it (so the counts add up
\* to total_files); an empty list gives zeros and an empty map.
C20_Summary ==
    summary # Pending =>
        LET fs == result.files
            by_status == summary.files_by_status
        IN /\ summary.total_files = Len(fs)
           /\ summary.total_additions = Cardinality(Units(fs, "additions"))
           /\ summary.total_deletions = Cardinality(Units(fs, "deletions"))
           /\ summary.total_changes = summary.total_additions + summary.total_deletions
           /\ DOMAIN by_status = {fs[f].status : f \in 1..Len(fs)}
           /\ \A st \in DOMAIN by_status :
                by_status[st] = Cardinality({f \in 1..Len(fs) : fs[f].status = st})
           /\ Cardinality(UNION {{<<st, n>> : n \in 1..by_status[st]} : st \in DOMAIN by_status})
                = summary.total_files
           /\ fs = <<>> =>
                /\ summary.total_files = 0 /\ summary.total_additions = 0
                /\ summary.total_deletions = 0 /\ summary.total_changes = 0
                /\ by_status = <<>>

\* The summary of two files of one status with additions and deletions.
C20_Witness ==
    /\ summary # Pending
    /\ Len(result.files) = 2
    /\ summary.files_by_status = ("modified" :> 2)
    /\ summary.total_additions = 3
    /\ summary.total_deletions = 2
    /\ summary.total_changes = 5

----
\* Cell contents and the lines they come from

\* The concatenation of the sequences hunks[h][field].
RECURSIVE Flatten(_, _)
Flatten(hunks, field) ==
    IF hunks = <<>> THEN <<>> ELSE hunks[1][field] \o Flatten(Tail(hunks), field)

\* A cell that holds a line: a cell of a context row, or a cell of a change
\* row that is not the padding.
HoldsLine(row, side) == row.type = "context" \/ row[side].type # "empty"

\* s without the line endings at its end.
TrimEnd(s) ==
    LET keep == {m \in 1..Len(s) : s[m] \notin {"\n", "\r"}}
    IN IF keep = {} THEN <<>>
       ELSE SubSeq(s, 1, CHOOSE m \in keep : \A n \in keep : n <= m)

\* The contents of the cells of `side` that hold a line, top to bottom.
RECURSIVE SideContents(_, _, _)
SideContents(rows, side, k) ==
    IF k > Len(rows) THEN <<>>
    ELSE IF HoldsLine(rows[k], side)
         THEN <<rows[k][side].content>> \o SideContents(rows, side, k + 1)
         ELSE SideContents(rows, side, k + 1)

\* The texts, without line endings, of the raw lines whose marker is not
\* `other`, top to bottom.
RECURSIVE RawTexts(_, _, _)
RawTexts(lines, other, k) ==
    IF k > Len(lines) THEN <<>>
    ELSE IF lines[k].line_type # other
         THEN <<TrimEnd(lines[k].value)>> \o RawTexts(lines, other, k + 1)
         ELSE RawTexts(lines, other, k + 1)

\* C22: the cells of a returned file that hold a line carry, top to bottom,
\* the texts of the file's raw lines of that side with the trailing "\n"
\* and "\r" removed and nothing else changed; a padding cell has content ""
\* and no line number.
C22_CellContent ==
    Returned =>
        \A f \in 1..Len(result.files) :
            LET rows == Flatten(OutHunks(f), "lines")
                raw == Flatten(InHunks(f), "lines")
            IN /\ SideContents(rows, "left", 1) = RawTexts(raw, "+", 1)
               /\ SideContents(rows, "right", 1) = RawTexts(raw, "-", 1)
               /\ \A k \in 1..Len(rows) : \A side \in {"left", "right"} :
                    ~HoldsLine(rows[k], side) =>
                        rows[k][side].content = <<>> /\ rows[k][side].line_num = None

\* A returned row holds the indented third line, its inner "\r" and blanks
\* kept, beside a padding cell.
C22_Witness ==
    /\ Returned
    /\ \E f \in 1..Len(result.files) :
        \E k \in 1..Len(Flatten(OutHunks(f), "lines")) :
            LET row == Flatten(OutHunks(f), "lines")[k]
            IN /\ row.type = "change"
               /\ row.left.type = "empty"
               /\ row.right.content = <<" ", "c", "\r", "\t", " ">>
               /\ InHunks(f)[1].lines[3].value = <<" ", "c", "\r", "\t", " ", "\r", "\n">>

\* The non-empty cells of `side` in the rows of the given kinds, top to
\* bottom, each as <<line number, content>>.
RECURSIVE CellsOf(_, _, _, _)
CellsOf(rows, kinds, side, k) ==
    IF k > Len(rows) THEN <<>>
    ELSE IF rows[k].type \in kinds /\ HoldsLine(rows[k], side)
         THEN <<<<rows[k][side].line_num, rows[k][side].content>>>>
                \o CellsOf(rows, kinds, side, k + 1)
         ELSE CellsOf(rows, kinds, side, k + 1)

\* The parsed lines of the given types, top to bottom, each as
\* <<its number in numfield, content>>.
RECURSIVE LinesOf(_, _, _, _)
LinesOf(lines, types, numfield, k) ==
    IF k > Len(lines) THEN <<>>
    ELSE IF lines[k].type \in types
         THEN <<<<lines[k][numfield], lines[k].content>>>>
                \o LinesOf(lines, types, numfield, k + 1)
         ELSE LinesOf(lines, types, numfield, k + 1)

\* C29: once a hunk is aligned, its context rows hold its context lines on
\* both sides, the left cells of its change rows its deletions and the right
\* cells its additions, each line once and in the order of the hunk; so do
\* the non-empty cells of each side as a whole.
C29_NoLineLost ==
    (pc = "align_for" /\ hunk_idx > 1) =>
        LET lines == ScannedLines
            rows == RowsOfHunk(hunk_idx - 1, 1)
            all == {"context", "change"}
        IN /\ CellsOf(rows, {"context"}, "left", 1) = LinesOf(lines, {"context"}, "old_line_num", 1)
           /\ CellsOf(rows, {"context"}, "right", 1) = LinesOf(lines, {"context"}, "new_line_num", 1)
           /\ CellsOf(rows, {"change"}, "left", 1) = LinesOf(lines, {"deletion"}, "old_line_num", 1)
           /\ CellsOf(rows, {"change"}, "right", 1) = LinesOf(lines, {"addition"}, "new_line_num", 1)
           /\ CellsOf(rows, all, "left", 1)
                = LinesOf(lines, {"context", "deletion"}, "old_line_num", 1)
           /\ CellsOf(rows, all, "right", 1)
                = LinesOf(lines, {"context", "addition"}, "new_line_num", 1)
           /\ \A k \in 1..Len(rows) : rows[k].type \in all

\* A hunk of a context line, a deletion and two additions has been aligned
\* into three rows.
C29_Witness ==
    /\ pc = "align_for" /\ hunk_idx = 2
    /\ [k \in 1..Len(ScannedLines) |-> ScannedLines[k].type]
            = <<"context", "deletion", "addition", "addition">>
    /\ Len(RowsOfHunk(1, 1)) = 3
    /\ RowsOfHunk(1, 1)[3].left.type = "empty"
    /\ RowsOfHunk(1, 1)[3].right.line_num = ScannedLines[4].new_line_num

\* C30: the path of a returned file is the new path of its section without
\* the a/ or b/ marker, and for a deleted file, whose new path is /dev/null,
\* the old path without its marker; it is never /dev/null.
C30_RealPath ==
    Returned =>
        \A f \in 1..Len(result.files) :
            LET pf == diff.files[f]
            IN /\ result.files[f].path # DevNull
               /\ result.files[f].path
                    = BarePath(IF pf.target_file = DevNull THEN pf.source_file
                               ELSE pf.target_file)

----
\* Repeated calls and the service

\* The calls that have ended, the one under way included once it is done.
Ended == calls \o (IF pc = "done" THEN <<[diff |-> diff, result |-> result]>> ELSE <<>>)

C23_ErrorSwallowed ==
    svc_pc = "done" =>
        /\ processed_diff.kind = "return"
        /\ (\/ pc = "done" /\ result.kind = "raise"
            \/ diff_data.status = "untracked"
            \/ diff_data.content = BlankDiff)
                => processed_diff.value = diff_data

\* The parser raised DiffParseError and the argument came back.
C23_Witness ==
    /\ svc_pc = "done"
    /\ pc = "done" /\ result.kind = "raise" /\ result.exc = "DiffParseError"
    /\ processed_diff = [kind |-> "return", value |-> diff_data]

----
\* The watcher and the path check

\* The times of the last events of the bursts of evs: an event ends a burst
\* when no event follows it within less than debounce_seconds.
RECURSIVE BurstEnds(_, _)
BurstEnds(evs, k) ==
    IF k > Len(evs) THEN <<>>
    ELSE IF k = Len(evs) \/ evs[k + 1] - evs[k] >= debounce_seconds
         THEN <<evs[k]>> \o BurstEnds(evs, k + 1)
         ELSE BurstEnds(evs, k + 1)

\* The notifications owed at time t: one for each burst, debounce_seconds
\* after its last event.
RECURSIVE Owed(_, _, _)
Owed(ends, t, k) ==
    IF k > Len(ends) THEN <<>>
    ELSE IF ends[k] + debounce_seconds <= t
         THEN <<[type |-> "change", timestamp |-> ends[k] + debounce_seconds]>>
                \o Owed(ends, t, k + 1)
         ELSE Owed(ends, t, k + 1)

IsPrefix(p, q) == Len(p) <= Len(q) /\ SubSeq(q, 1, Len(p)) = p

\* C24: the queue holds one change notification for each burst of accepted
\* events, stamped debounce_seconds after the burst's last event, and none
\* else: all those due before now, and of those due now the ones whose
\* timer has fired.
C24_Debounce ==
    LET ends == BurstEnds(events, 1)
    IN /\ IsPrefix(Owed(ends, now - 1, 1), event_queue)
       /\ IsPrefix(event_queue, Owed(ends, now, 1))

\* A burst of two events and a later event have given two notifications.
C24_Witness ==
    /\ Len(events) = 3
    /\ events[2] - events[1] < debounce_seconds
    /\ events[2] > events[1]
    /\ events[3] - events[2] > debounce_seconds
    /\ Len(event_queue) = 2
    /\ event_queue[1].timestamp = events[2] + debounce_seconds
    /\ event_queue[2].timestamp = events[3] + debounce_seconds

\* The path lies in the repository directory: it is the directory or a
\* path below it.
Inside(path) ==
    abspath(path) = RepoPath \/ startswith(abspath(path), RepoPath \o <<"/">>)

\* C26: an on_any_event call for a path that contains an ignore pattern
\* (".git" is always one) or lies outside the repository directory leaves
\* the timers, debounce_timer, last_event_time and the queue as they were.
C26_IgnoredEvents ==
    [][(handled' # handled
            /\ (\/ contains(last_path', <<".git">>)
                \/ should_ignore(ignore_patterns, last_path')
                \/ ~Inside(last_path')))
        => UNCHANGED <<debounce_timer, last_event_time, timers, event_queue>>]_vars

\* C28: _is_safe_file_path returns True only for a path that resolves to
\* the repository directory or below it.
C28_SafePath ==
    (safe # Pending /\ safe.value) => Inside(joinpath(RepoPath, file_path))

----
\* The watch manager and its streams

\* The observers that are running.
Running == {o \in 1..Len(observers) : observers[o] = "running"}

\* The observers that exist: made and not yet stopped and joined.
Existing == {o \in 1..Len(observers) : observers[o] # "joined"}

\* C25: whenever no add_client or remove_client call is under way, the
\* manager has an observer exactly when the client table is not empty, that
\* observer is running and is the only one that exists; with an empty table
\* every observer made so far has been stopped and joined.
C25_ObserverIffClients ==
    lock = None =>
        /\ observer # None <=> DOMAIN clients # {}
        /\ Existing = {observer} \ {None}
        /\ Running = Existing

\* C27: a stream calls remove_client at most once and only with the id
\* add_client gave it; a stream that has ended and had registered a client
\* has unregistered it; connected is the first event a stream yields that
\* registered without error, and precedes every change event.
C27_Unregistered ==
    \A t \in Streams :
        LET st == stream[t]
        IN /\ Len(st.removes) <= 1
           /\ \A k \in 1..Len(st.removes) : st.removes[k] = st.registered
           /\ (st.pc = "ended" /\ st.registered # None) =>
                st.removes = <<st.registered>> /\ st.registered \notin DOMAIN clients
           /\ \A k \in 1..Len(st.out) :
                st.out[k] = "change" => k > 1 /\ st.out[1] = "connected"

====
